---- MODULE Spec2Model ----
(***************************************************************************)
(* A model of src/MySQLAdapter.js: the criteria compiler (the private      *)
(* object sql) and the adapter's connection plumbing (registerCollection,  *)
(* spawnConnection and the operations that go through it).                 *)
(*                                                                         *)
(* JavaScript values are records [t, s, kv]: t is the type, s the text of  *)
(* a scalar, kv the entries of an object or an array as a sequence of      *)
(* <<key, value>> pairs in iteration order.  Generated SQL is a sequence   *)
(* of tokens [k, s]: k tells where the text s comes from ("sql": a string  *)
(* literal of the source, "id": the result of mysql.escapeId, "val": the   *)
(* result of mysql.escape, "raw": caller data concatenated as it is).      *)
(* A string literal of the source is split at its blanks, a blank being    *)
(* the token Sp.  A call returns [ok, sql, err]: ok = FALSE is a thrown    *)
(* Error with message err.                                                 *)
(***************************************************************************)
EXTENDS Integers, Sequences, FiniteSets, TLC

VARIABLES
    entry,      \* the function of sql under translation ("" when none)
    input,      \* its argument, a JavaScript value
    output,     \* what it returned or threw (NoOutput before the call)
    dbs,        \* var dbs (line 15): sequence of <<identity, config>>
    regs,       \* the registerCollection calls made so far
    pool,       \* adapter.pool and adapter.tether
    op          \* the operation in flight through spawnConnection

vars == <<entry, input, output, dbs, regs, pool, op>>

----------------------------------------------------------------------------
(* JavaScript values *)

V(t, s, kv) == [t |-> t, s |-> s, kv |-> kv]
Undefined   == V("undefined", "", <<>>)
Null        == V("null", "", <<>>)
Num(n)      == V("number", ToString(n), <<>>)
Str(s)      == V("string", s, <<>>)
Bool(b)     == V("boolean", IF b THEN "true" ELSE "false", <<>>)
RegExp(s)   == V("regexp", s, <<>>)
Obj(kv)     == V("object", "", kv)
Arr(a)      == V("array", "", [i \in 1..Len(a) |-> <<ToString(i - 1), a[i]>>])

\* JavaScript's ToBoolean: what  if (x)  and  x || y  test
Truthy(v) ==
    CASE v.t \in {"undefined", "null"} -> FALSE
      [] v.t = "number"  -> v.s # "0"
      [] v.t = "string"  -> v.s # ""
      [] v.t = "boolean" -> v.s = "true"
      [] OTHER -> TRUE

\* c[k]: the property k of c, undefined when c has none
Get(c, k) ==
    LET hits == SelectSeq(c.kv, LAMBDA e : e[1] = k)
    IN  IF hits = <<>> THEN Undefined ELSE hits[Len(hits)][2]

Has(c, k) == \E i \in 1..Len(c.kv) : c.kv[i][1] = k

\* String.prototype.toLowerCase on the keys the model uses
toLowerCase(s) ==
    CASE s \in {"OR", "Or"}     -> "or"
      [] s \in {"AND", "And"}   -> "and"
      [] s \in {"NOT", "Not"}   -> "not"
      [] s \in {"LIKE", "Like"} -> "like"
      [] OTHER -> s

----------------------------------------------------------------------------
(* SQL text *)

Tok(k, s) == [k |-> k, s |-> s]
Sql(s)    == Tok("sql", s)
Sp        == Sql(" ")
Ok(toks)  == [ok |-> TRUE, sql |-> toks, err |-> ""]
Throw(m)  == [ok |-> FALSE, sql |-> <<>>, err |-> m]
NoOutput  == [ok |-> FALSE, sql |-> <<>>, err |-> "(not called)"]

\* The identifier quote of mysql.escapeId is the character U+0060, which a
\* TLA+ string cannot hold; IdQuote stands for it.
IdQuote == "^"

\* mysql.escapeId(name)
escapeId(name) == IdQuote \o name \o IdQuote

RECURSIVE JoinText(_, _)
JoinText(parts, sep) ==
    IF parts = <<>> THEN ""
    ELSE IF Len(parts) = 1 THEN parts[1]
    ELSE parts[1] \o sep \o JoinText(Tail(parts), sep)

\* mysql.escape(val, true): an element of an array or a value of an object;
\* an object or an array inside one is stringified first
escapeInner(v) ==
    CASE v.t \in {"undefined", "null"} -> "NULL"
      [] v.t \in {"boolean", "number"} -> v.s
      [] v.t = "string" -> "'" \o v.s \o "'"
      [] v.t = "regexp" -> "'/" \o v.s \o "/'"
      [] OTHER -> "'[object Object]'"

\* mysql.escape(val): NULL, true/false, the digits of a number, a quoted
\* string, the list of an array, the assignments of an object
escape(v) ==
    CASE v.t = "array" ->
            JoinText([i \in 1..Len(v.kv) |-> escapeInner(v.kv[i][2])], ", ")
      [] v.t = "object" ->
            JoinText([i \in 1..Len(v.kv) |->
                        escapeId(v.kv[i][1]) \o " = " \o escapeInner(v.kv[i][2])],
                     ", ")
      [] v.t = "regexp" -> ""
      [] OTHER -> escapeInner(v)

\* String(x), what  'LIMIT ' + x  concatenates
ToStr(v) ==
    CASE v.t \in {"undefined", "null"} -> v.t
      [] v.t \in {"object", "array"} -> "[object Object]"
      [] OTHER -> v.s

\* The separators handed to sql.build
COMMA_SEP == <<Sql(","), Sp>>
AND_SEP   == <<Sp, Sql("AND"), Sp>>
OR_SEP    == <<Sp, Sql("OR"), Sp>>

\* _.str.rtrim(str, characters): drops from the end of str every character
\* that occurs in characters.  The tokens of a separator are the only tokens
\* made of its characters alone, and every other token ends in a character
\* that is in no separator, so whole tokens are dropped.
rtrim(toks, separator) ==
    LET strip(t) == t.s = "" \/ \E i \in 1..Len(separator) : t = separator[i]
        keep == {n \in 0..Len(toks) : \A i \in (n + 1)..Len(toks) : strip(toks[i])}
        n == CHOOSE m \in keep : \A o \in keep : m <= o
    IN  SubSeq(toks, 1, n)

\* valueStr.replace(/%%%/g, '\\%') on the patterns the model uses
replaceTriplePercent(s) ==
    CASE s = "'50%%%'" -> "'50\\%'"
      [] s = "'%%%x'"  -> "'\\%x'"
      [] OTHER -> s

----------------------------------------------------------------------------
(* The criteria compiler: var sql *)

RECURSIVE build(_, _, _, _, _), each(_, _, _, _, _), callFn(_, _, _, _),
          eachRest(_, _, _, _, _, _),
          where(_, _), predicate(_, _, _), prepareCriterion(_, _, _)

ComparatorKeys ==
    {"<", "lessThan", "<=", "lessThanOrEqual", ">", "greaterThan",
     ">=", "greaterThanOrEqual", "!", "not", "contains", "startsWith", "endsWith"}

\* function validSubAttrCriteria (c): the || chain is true iff some operand is
IsObject(c) == c.t \in {"object", "array", "regexp"}

validSubAttrCriteria(c) ==
    IsObject(c) /\ \E k \in ComparatorKeys : Truthy(Get(c, k))

\* sql.prepareValue (no Date and no function is among the model's values)
prepareValue(value) == Ok(<<Tok("val", escape(value))>>)

\* sql.prepareAttribute
prepareAttribute(attrName) == Ok(<<Tok("id", escapeId(attrName))>>)

\* the function handed to sql.build for a LIKE (lines 386-401)
likeCriterion(value, attrName) ==
    IF value.t = "regexp"
    THEN Throw("RegExp LIKE criterias not supported by the MySQLAdapter yet.")
    ELSE Ok(<<Tok("id", escapeId(attrName)), Sp, Sql("LIKE"), Sp,
              Tok("val", replaceTriplePercent(escape(value)))>>)

\* fn(collectionName, value, key, parentKey) for the functions handed to build
callFn(fn, value, key, parentKey) ==
    CASE fn = "predicate"        -> predicate(value, key, parentKey)
      [] fn = "where"            -> where(value, parentKey)
      [] fn = "prepareCriterion" -> prepareCriterion(value, key, parentKey)
      [] fn = "prepareValue"     -> prepareValue(value)
      [] fn = "prepareAttribute" -> prepareAttribute(key)
      [] fn = "like"             -> likeCriterion(value, key)

\* the one element of a singleton set: The({F(r) : r \in {e}}) is F of the
\* value of e, e being evaluated once
The(S) == CHOOSE x \in S : TRUE

\* $sql += fn(...); $sql += separator, for the entries after the first
eachRest(r, entries, fn, separator, keyOverride, parentKey) ==
    The({IF ~rest.ok THEN rest ELSE Ok(r.sql \o separator \o rest.sql) :
            rest \in {each(entries, fn, separator, keyOverride, parentKey)}})

\* a loop that stops after the first entry: "the first matching key wins"
eachFirstOnly(entries, fn, separator, keyOverride, parentKey) ==
    IF entries = <<>> THEN Ok(<<>>)
    ELSE callFn(fn, Head(entries)[2],
                IF keyOverride # "" THEN keyOverride ELSE Head(entries)[1],
                parentKey)

\* the _.each loop of sql.build: fn's result and the separator per entry;
\* the first fn that throws ends the loop
each(entries, fn, separator, keyOverride, parentKey) ==
    IF entries = <<>> THEN Ok(<<>>)
    ELSE The({IF ~r.ok THEN r
              ELSE eachRest(r, Tail(entries), fn, separator, keyOverride, parentKey) :
                 r \in {callFn(fn, Head(entries)[2],
                               IF keyOverride # "" THEN keyOverride
                               ELSE Head(entries)[1],
                               parentKey)}})

\* sql.build; an absent keyOverride or parentKey is "", which is falsy too
build(collection, fn, separator, keyOverride, parentKey) ==
    The({IF ~r.ok THEN r ELSE Ok(rtrim(r.sql, separator)) :
            r \in {each(collection.kv, fn, separator, keyOverride, parentKey)}})

\* sql.attributes, sql.values, sql.criteria
attributes(attrs)   == build(attrs, "prepareAttribute", COMMA_SEP, "", "")
values(vals, key)   == build(vals, "prepareValue", COMMA_SEP, key, "")
criteria(vals)      == build(vals, "prepareCriterion", COMMA_SEP, "", "")

\* sql.where
where(w, parentKey) == build(w, "predicate", AND_SEP, "", parentKey)

\* sql.prepareCriterion
prepareCriterion(value, key, parentKey) ==
    IF validSubAttrCriteria(value) THEN where(value, key)
    ELSE IF parentKey # "" THEN
        LET attrStr  == <<Tok("id", escapeId(parentKey))>>
            valueStr == <<Tok("val", escape(value))>>
        IN  CASE key \in {"<", "lessThan"} -> Ok(attrStr \o <<Sql("<")>> \o valueStr)
              [] key \in {"<=", "lessThanOrEqual"} -> Ok(attrStr \o <<Sql("<=")>> \o valueStr)
              [] key \in {">", "greaterThan"} -> Ok(attrStr \o <<Sql(">")>> \o valueStr)
              [] key \in {">=", "greaterThanOrEqual"} -> Ok(attrStr \o <<Sql(">=")>> \o valueStr)
              [] key \in {"!", "not"} ->
                    IF value.t = "null"
                    THEN Ok(attrStr \o <<Sql("IS"), Sp, Sql("NOT"), Sp, Sql("NULL")>>)
                    ELSE Ok(attrStr \o <<Sql("<>")>> \o valueStr)
              [] key = "contains" ->
                    Ok(attrStr \o <<Sp, Sql("LIKE"), Sp, Sql("%")>> \o valueStr \o <<Sql("%")>>)
              [] key = "startsWith" ->
                    Ok(attrStr \o <<Sp, Sql("LIKE"), Sp>> \o valueStr \o <<Sql("%")>>)
              [] key = "endsWith" ->
                    Ok(attrStr \o <<Sp, Sql("LIKE"), Sp, Sql("%")>> \o valueStr)
              [] OTHER -> Throw("Unknown comparator: " \o key)
    ELSE
        LET attrStr  == <<Tok("id", escapeId(key))>>
            valueStr == <<Tok("val", escape(value))>>
        IN  IF value.t = "null" THEN Ok(attrStr \o <<Sp, Sql("IS"), Sp, Sql("NULL")>>)
            ELSE Ok(attrStr \o <<Sql("=")>> \o valueStr)

\* ' ( ' + queryPart + ' ) '
Group(r) ==
    IF ~r.ok THEN r
    ELSE Ok(<<Sp, Sql("("), Sp>> \o r.sql \o <<Sp, Sql(")"), Sp>>)

\* attr + " IN (" + values + ")"
InList(key, r) ==
    IF ~r.ok THEN r
    ELSE Ok(<<Tok("id", escapeId(key)), Sp, Sql("IN"), Sp, Sql("(")>>
            \o r.sql \o <<Sql(")")>>)

\* sql.predicate
predicate(criterion, key, parentKey) ==
    IF parentKey # "" THEN prepareCriterion(criterion, key, parentKey)
    ELSE IF toLowerCase(key) = "or"
         THEN Group(build(criterion, "where", OR_SEP, "", ""))
    ELSE IF toLowerCase(key) = "and"
         THEN Group(build(criterion, "where", AND_SEP, "", ""))
    ELSE IF criterion.t = "array" THEN InList(key, values(criterion, key))
    ELSE IF toLowerCase(key) = "like"
         THEN build(criterion, "like", AND_SEP, "", "")
    ELSE IF toLowerCase(key) = "not" THEN Throw("NOT not supported yet!")
    ELSE prepareCriterion(criterion, key, "")

\* the sentinel of line 445
NoLimit == "18446744073709551610"

\* the _.each over options.sort (lines 427-437)
RECURSIVE sortList(_)
sortList(entries) ==
    IF entries = <<>> THEN <<>>
    ELSE LET attrName  == Head(entries)[1]
             direction == Head(entries)[2]
         IN  <<Tok("id", escapeId(attrName)), Sp,
               IF direction.t = "number" /\ direction.s = "1"
               THEN Sql("ASC") ELSE Sql("DESC"),
               Sp>> \o sortList(Tail(entries))

\* a serializer without the sentinel: no LIMIT clause unless limit is truthy
serializeOptionsNoSentinel(options) ==
    LET w == Get(options, "where")
        r == IF Truthy(w) THEN where(w, "") ELSE Ok(<<>>)
        wherePart == IF Truthy(w) THEN <<Sql("WHERE"), Sp>> \o r.sql \o <<Sp>>
                     ELSE <<>>
        sortPart  == IF Truthy(Get(options, "sort"))
                     THEN <<Sql("ORDER"), Sp, Sql("BY"), Sp>>
                          \o sortList(Get(options, "sort").kv)
                     ELSE <<>>
        limitPart == IF Truthy(Get(options, "limit"))
                     THEN <<Sql("LIMIT"), Sp,
                            Tok("raw", ToStr(Get(options, "limit"))), Sp>>
                     ELSE <<>>
        skipPart  == IF Truthy(Get(options, "skip"))
                     THEN <<Sql("OFFSET"), Sp,
                            Tok("raw", ToStr(Get(options, "skip"))), Sp>>
                     ELSE <<>>
    IN  IF ~r.ok THEN r
        ELSE Ok(wherePart \o sortPart \o limitPart \o skipPart)

\* sql.serializeOptions
serializeOptions(options) ==
    LET w == Get(options, "where")
        r == IF Truthy(w) THEN where(w, "") ELSE Ok(<<>>)
        wherePart == IF Truthy(w) THEN <<Sql("WHERE"), Sp>> \o r.sql \o <<Sp>>
                     ELSE <<>>
        sortPart  == IF Truthy(Get(options, "sort"))
                     THEN <<Sql("ORDER"), Sp, Sql("BY"), Sp>>
                          \o sortList(Get(options, "sort").kv)
                     ELSE <<>>
        limitPart == IF Truthy(Get(options, "limit"))
                     THEN <<Sql("LIMIT"), Sp,
                            Tok("raw", ToStr(Get(options, "limit"))), Sp>>
                     ELSE <<Sql("LIMIT"), Sp, Sql(NoLimit), Sp>>
        skipPart  == IF Truthy(Get(options, "skip"))
                     THEN <<Sql("OFFSET"), Sp,
                            Tok("raw", ToStr(Get(options, "skip"))), Sp>>
                     ELSE <<>>
    IN  IF ~r.ok THEN r
        ELSE Ok(wherePart \o sortPart \o limitPart \o skipPart)

----------------------------------------------------------------------------
(* Bounds and the inputs drawn from them *)

MaxNum     == 1     \* the numbers of the inputs are 0..MaxNum
MaxSeq     == 2     \* elements of an IN list, nodes of an or/and sequence
MaxEntries == 2     \* entries of a predicate node built from the pool

Numbers == {Num(n) : n \in 0..MaxNum}
Scalars == Numbers \cup {Null, Str(""), Str("x"), Bool(FALSE), Bool(TRUE)}

SeqsUpTo(S, n) == UNION {[1..m -> S] : m \in 0..n}

DistinctKeys(kv) == \A i, j \in 1..Len(kv) : kv[i][1] = kv[j][1] => i = j

\* {a: {k: v}}: one comparator key, recognized or not, on one attribute
OneComparatorNodes ==
    {Obj(<< <<"a", Obj(<< <<k, v>> >>)>> >>) :
        k \in ComparatorKeys \cup {"foo"}, v \in Scalars}

\* {a: {k1: v1, k2: v2}}
TwoComparatorNodes ==
    LET keys == {">", "<", "!", "contains", "foo"}
        ops  == Numbers \cup {Null, Str("x")}
        kvs  == {kv \in [1..2 -> keys \X ops] : DistinctKeys(kv)}
    IN  {Obj(<< <<"a", Obj(kv)>> >>) : kv \in kvs}

\* {not: v}, outside comparator context
NotNodes ==
    {Obj(<< <<k, v>> >>) :
        k \in {"not", "NOT"},
        v \in Scalars \cup {Arr(<<Num(0)>>), Obj(<<>>), Obj(<< <<">", Num(1)>> >>)}}

LeafEntries ==
    {<<"a", Num(1)>>, <<"b", Null>>, <<"b", Str("x")>>,
     <<"like", Obj(<<>>)>>, <<"like", Obj(<< <<"b", Str("x%")>> >>)>>,
     <<"LIKE", Obj(<< <<"a", Str("50%%%")>>, <<"b", Str("x%")>> >>)>>,
     <<"like", Obj(<< <<"b", RegExp("x")>> >>)>>}
    \cup {<<"a", Arr(s)>> : s \in SeqsUpTo({Num(0), Str("x")}, MaxSeq)}

NestedNodes ==
    {Obj(<<>>), Obj(<< <<"a", Num(1)>> >>), Obj(<< <<"b", Null>> >>),
     Obj(<< <<"a", Num(1)>>, <<"b", Null>> >>),
     Obj(<< <<"a", Obj(<< <<">", Num(1)>> >>)>> >>),
     Obj(<< <<"and", Arr(<<Obj(<< <<"a", Num(1)>> >>),
                           Obj(<< <<"b", Str("x")>> >>)>>)>> >>)}

ComboEntries ==
    {<<c, Arr(s)>> : c \in {"or", "OR", "and"}, s \in SeqsUpTo(NestedNodes, MaxSeq)}

EntryPool ==
    LeafEntries \cup
    {<<"or", Arr(<<Obj(<< <<"a", Num(1)>> >>), Obj(<< <<"b", Null>> >>)>>)>>,
     <<"and", Arr(<<Obj(<< <<"b", Str("x")>> >>)>>)>>}

CompositionNodes ==
    {Obj(<<e>>) : e \in ComboEntries}
    \cup {Obj(kv) : kv \in {s \in SeqsUpTo(EntryPool, MaxEntries) : DistinctKeys(s)}}

WhereInputs ==
    OneComparatorNodes \cup TwoComparatorNodes \cup NotNodes \cup CompositionNodes

----------------------------------------------------------------------------
(* The adapter: registerCollection, spawnConnection and the operations *)

MaxRegs == 2    \* registerCollection calls in one run

Identities == {"c1", "c2"}
Hosts      == {"h1", "h2"}

\* the collections handed to registerCollection
Collections ==
    [identity : Identities, host : Hosts, database : {"d"}, pool : BOOLEAN]

\* adapter.defaults (lines 25-29)
defaults == [pool |-> FALSE]

\* function marshalConfig: _.extend(config, {...}) is config itself with its
\* own host, user, password and database assigned to it
marshalConfig(config) ==
    [config EXCEPT !.host = config.host, !.database = config.database]

\* dbs[name], <<>> when dbs has no such key
Lookup(name) ==
    LET hits == SelectSeq(dbs, LAMBDA e : e[1] = name)
    IN  IF hits = <<>> THEN <<>> ELSE <<hits[1][2]>>

\* _.find(dbs, ...) of lines 57-60: the first db, in key order, of the
\* collection's host and database
FindDb(collection) ==
    LET hits == SelectSeq(dbs, LAMBDA e : /\ collection.host = e[2].host
                                          /\ collection.database = e[2].database)
    IN  IF hits = <<>> THEN <<>> ELSE <<hits[1][2]>>

\* dbs[identity] = db: an existing key keeps its place, a new one is last
SetDb(identity, db) ==
    IF \E i \in 1..Len(dbs) : dbs[i][1] = identity
    THEN [i \in 1..Len(dbs) |-> IF dbs[i][1] = identity THEN <<identity, db>> ELSE dbs[i]]
    ELSE Append(dbs, <<identity, db>>)

NoOp == [kind |-> "", collectionName |-> "", vals |-> Undefined, phase |-> "idle",
         hasCb |-> FALSE, conn |-> "none", sent |-> FALSE, held |-> "",
         cbs |-> <<>>, cause |-> ""]

InitAdapter ==
    /\ dbs = <<>>
    /\ regs = <<>>
    /\ pool = [pool |-> "", tether |-> ""]
    /\ op = NoOp

adapterVars == <<dbs, regs, pool, op>>

----------------------------------------------------------------------------
(* sql.where applied to the predicate nodes of WhereInputs *)

InitWhere ==
    /\ entry = "where"
    /\ input \in WhereInputs
    /\ output = NoOutput
    /\ InitAdapter

Where ==
    /\ entry = "where"
    /\ output = NoOutput
    /\ output' = where(input, "")
    /\ UNCHANGED <<entry, input, adapterVars>>

NextWhere == Where

SpecWhere == InitWhere /\ [][NextWhere]_vars

Done == output # NoOutput

----------------------------------------------------------------------------
(* Claims about sql.where *)

\* parts joined by sep: sep between two parts and nowhere else
RECURSIVE JoinToks(_, _)
JoinToks(parts, sep) ==
    IF parts = <<>> THEN <<>>
    ELSE IF Len(parts) = 1 THEN parts[1]
    ELSE parts[1] \o sep \o JoinToks(Tail(parts), sep)

NoSp(toks) == SelectSeq(toks, LAMBDA t : t # Sp)

IsScalar(v) == v.t \in {"null", "number", "string", "boolean"}

\* the node is {a: c} for one attribute a and an object c
IsAttrObjectNode(n) ==
    /\ n.t = "object" /\ Len(n.kv) = 1
    /\ n.kv[1][1] \in {"a", "b"}
    /\ n.kv[1][2].t = "object"

TheAttr(n) == n.kv[1][1]
TheObj(n)  == n.kv[1][2]

\* c's keys are recognized comparator keys and its operands scalars
IsComparatorObject(c) ==
    /\ c.kv # <<>>
    /\ \A i \in 1..Len(c.kv) : c.kv[i][1] \in ComparatorKeys /\ IsScalar(c.kv[i][2])

\* comparator k with operand v applied to attribute a
Comparison(a, k, v) == prepareCriterion(v, k, a).sql

\* attribute a compared for equality with the value c
Equality(a, c) == <<Tok("id", escapeId(a)), Sql("="), Tok("val", escape(c))>>

\* C1: for {a: {k: v}} with k a recognized comparator key and v any scalar,
\* falsy ones included, sql.where renders comparator k applied to a and never
\* an equality between a and the object {k: v}.
C1_DetectionByKeyPresence ==
    (/\ Done /\ entry = "where" /\ IsAttrObjectNode(input)
     /\ IsComparatorObject(TheObj(input)) /\ Len(TheObj(input).kv) = 1)
    => LET a == TheAttr(input)
           e == TheObj(input).kv[1]
       IN  /\ output = Ok(Comparison(a, e[1], e[2]))
           /\ output # Ok(Equality(a, TheObj(input)))

\* the comparisons of all the entries of c, in key order, joined by AND
AllComparisons(a, c) ==
    JoinToks([i \in 1..Len(c.kv) |-> Comparison(a, c.kv[i][1], c.kv[i][2])], AND_SEP)

HasNotKey(n) ==
    n.t = "object" /\ \E i \in 1..Len(n.kv) : toLowerCase(n.kv[i][1]) = "not"

\* the object given as the value of an attribute has a key outside the
\* recognized comparator set
HasUnknownComparator(n) ==
    /\ IsAttrObjectNode(n)
    /\ \E i \in 1..Len(TheObj(n).kv) : TheObj(n).kv[i][1] \notin ComparatorKeys

\* C3: sql.where throws, and returns no SQL, whenever (a) the node has a key
\* equal to not whatever the case, or (b) the object given as the value of an
\* attribute has a key outside the recognized comparator set.
C3_UnsupportedOperatorThrows ==
    (Done /\ entry = "where" /\ (HasNotKey(input) \/ HasUnknownComparator(input)))
    => ~output.ok

\* The reference translation: the translations of a node's entries, in key
\* order, joined by AND; an or/and entry is one parenthesized group of the
\* translations of its nodes, in sequence order, joined by OR/AND, also when
\* its value is an array.  Blanks are not compared.
RECURSIVE RefNode(_), RefEntry(_)
RefNode(node) ==
    JoinToks([i \in 1..Len(node.kv) |-> RefEntry(node.kv[i])], AND_SEP)

RefEntry(e) ==
    IF toLowerCase(e[1]) \in {"or", "and"} /\ e[2].t = "array"
    THEN <<Sql("(")>>
         \o JoinToks([i \in 1..Len(e[2].kv) |-> RefNode(e[2].kv[i][2])],
                     IF toLowerCase(e[1]) = "or" THEN OR_SEP ELSE AND_SEP)
         \o <<Sql(")")>>
    ELSE predicate(e[2], e[1], "").sql

IsJoinOperator(t) == t \in {Sql("AND"), Sql("OR")}

NoOuterJoinOperator(toks) ==
    LET w == NoSp(toks)
    IN  w # <<>> => ~IsJoinOperator(w[1]) /\ ~IsJoinOperator(w[Len(w)])

\* a node none of whose mappings and sequences is empty
RECURSIVE NoEmptyPart(_)
NoEmptyPart(v) ==
    \/ IsScalar(v)
    \/ /\ v.kv # <<>>
       /\ \A i \in 1..Len(v.kv) : NoEmptyPart(v.kv[i][2])

\* The composition of C5 for the nodes without an empty mapping or sequence:
\* there the output is the reference translation.
CompositionOfNonEmptyParts ==
    (/\ Done /\ entry = "where" /\ output.ok /\ input \in CompositionNodes
     /\ NoEmptyPart(input))
    => NoSp(output.sql) = NoSp(RefNode(input))

\* C5: the translation of every node is its entries' translations, in key
\* order, joined by AND, groups included, and neither begins nor ends with a
\* join operator.
C5_StructuralComposition ==
    /\ CompositionOfNonEmptyParts
    /\ (Done /\ entry = "where" /\ output.ok /\ input \in CompositionNodes)
       => NoOuterJoinOperator(output.sql)

----------------------------------------------------------------------------
(* sql.serializeOptions, sql.criteria, sql.attributes and sql.values applied
   to criteria objects and records *)

\* an object of the entries that are present (an absent one is <<>>)
OptObj(parts) ==
    Obj(SelectSeq(parts, LAMBDA e : e # <<>>))

WhereOptions ==
    {<<>>,
     <<"where", Obj(<<>>)>>,
     <<"where", Obj(<< <<"a", Num(1)>> >>)>>,
     <<"where", Obj(<< <<"a", Obj(<< <<">", Num(1)>> >>)>>, <<"b", Null>> >>)>>,
     <<"where", Obj(<< <<"or", Arr(<<Obj(<< <<"a", Num(1)>> >>),
                                     Obj(<< <<"b", Str("x")>> >>)>>)>> >>)>>,
     <<"where", Obj(<< <<"a", Arr(<<Num(0), Str("x")>>)>> >>)>>,
     <<"where", Obj(<< <<"like", Obj(<< <<"b", Str("x%")>> >>)>> >>)>>,
     <<"where", Obj(<< <<"not", Num(1)>> >>)>>}

SortOptions ==
    {<<>>,
     <<"sort", Obj(<<>>)>>,
     <<"sort", Obj(<< <<"a", Num(1)>> >>)>>,
     <<"sort", Obj(<< <<"a", Num(0)>> >>)>>,
     <<"sort", Obj(<< <<"b", Str("desc")>>, <<"a", Num(1)>> >>)>>}

LimitOptions == {<<>>} \cup {<<"limit", n>> : n \in Numbers}
SkipOptions  == {<<>>} \cup {<<"skip", n>> : n \in Numbers}

CriteriaObjects ==
    {OptObj(<<w, s, l, k>>) :
        w \in WhereOptions, s \in SortOptions, l \in LimitOptions, k \in SkipOptions}

Records ==
    {Obj(kv) : kv \in {s \in SeqsUpTo({"a", "b"} \X {Num(1), Str("x"), Null}, MaxEntries) :
                          DistinctKeys(s)}}

InitOptions ==
    /\ \E c \in ({"serializeOptions"} \X CriteriaObjects)
                \cup ({"criteria", "attributes", "values"} \X Records) :
          entry = c[1] /\ input = c[2]
    /\ output = NoOutput
    /\ InitAdapter

SerializeOptions ==
    /\ entry = "serializeOptions"
    /\ output = NoOutput
    /\ output' = serializeOptions(input)
    /\ UNCHANGED <<entry, input, adapterVars>>

Criteria ==
    /\ entry = "criteria"
    /\ output = NoOutput
    /\ output' = criteria(input)
    /\ UNCHANGED <<entry, input, adapterVars>>

Attributes ==
    /\ entry = "attributes"
    /\ output = NoOutput
    /\ output' = attributes(input)
    /\ UNCHANGED <<entry, input, adapterVars>>

Values ==
    /\ entry = "values"
    /\ output = NoOutput
    /\ output' = values(input, "")
    /\ UNCHANGED <<entry, input, adapterVars>>

NextOptions == SerializeOptions \/ Criteria \/ Attributes \/ Values

SpecOptions == InitOptions /\ [][NextOptions]_vars

----------------------------------------------------------------------------
(* Claims about sql.serializeOptions *)

\* C4: every caller-supplied item of the output went through mysql.escape
\* or mysql.escapeId; none is concatenated as it is.
C4_NoRawCallerData ==
    (Done /\ output.ok) => \A i \in 1..Len(output.sql) : output.sql[i].k # "raw"

ClauseWords == {Sql(w) : w \in {"WHERE", "ORDER", "LIMIT", "OFFSET"}}

\* the clause keywords of the output, in the order they occur
Clauses(toks) == SelectSeq(toks, LAMBDA t : t \in ClauseWords)

\* where keyword w is in toks (0 when it is not)
IndexOf(toks, w) ==
    IF \E i \in 1..Len(toks) : toks[i] = Sql(w)
    THEN CHOOSE i \in 1..Len(toks) :
            toks[i] = Sql(w) /\ \A j \in 1..(i - 1) : toks[j] # Sql(w)
    ELSE 0

\* the subsequences of WHERE, ORDER BY, LIMIT, OFFSET that hold LIMIT
ClauseOrders ==
    {SelectSeq(<<Sql("WHERE"), Sql("ORDER"), Sql("LIMIT"), Sql("OFFSET")>>,
               LAMBDA t : t \in S) : S \in {T \cup {Sql("LIMIT")} : T \in SUBSET ClauseWords}}

LimitIsPositive(options) ==
    /\ Has(options, "limit")
    /\ Get(options, "limit").t = "number"
    /\ Get(options, "limit").s \notin {"0"}

\* C6: the clauses come in the order WHERE, ORDER BY, LIMIT, OFFSET, each at
\* most once, with exactly one LIMIT: LIMIT n for a present, positive limit
\* n and the sentinel LIMIT 18446744073709551610 otherwise.
C6_ClauseOrderAndLimit ==
    (Done /\ entry = "serializeOptions" /\ output.ok)
    => /\ Clauses(output.sql) \in ClauseOrders
       /\ LET i == IndexOf(output.sql, "LIMIT")
          IN  /\ output.sql[i + 1] = Sp
              /\ output.sql[i + 2] =
                    IF LimitIsPositive(input)
                    THEN Tok("raw", Get(input, "limit").s)
                    ELSE Sql(NoLimit)

\* a criteria object with where, sort and skip and without limit was
\* serialized: all four clauses, the LIMIT being the sentinel
C6_Witness ==
    /\ Done /\ entry = "serializeOptions" /\ output.ok
    /\ Get(input, "where").kv # <<>> /\ Get(input, "sort").kv # <<>>
    /\ ~Has(input, "limit") /\ Truthy(Get(input, "skip"))
    /\ Clauses(output.sql) = <<Sql("WHERE"), Sql("ORDER"), Sql("LIMIT"), Sql("OFFSET")>>
    /\ output.sql[IndexOf(output.sql, "LIMIT") + 2] = Sql(NoLimit)

\* C7: WHERE is emitted only for a where that is present and not the empty
\* mapping, and a non-empty predicate fragment follows it.
C7_WhereOnlyIfNonEmpty ==
    (/\ Done /\ entry = "serializeOptions" /\ output.ok
     /\ IndexOf(output.sql, "WHERE") > 0)
    => /\ Has(input, "where")
       /\ Get(input, "where").kv # <<>>
       /\ \E j \in 1..Len(output.sql) :
              /\ j > IndexOf(output.sql, "WHERE")
              /\ \A k \in (IndexOf(output.sql, "WHERE") + 1)..j :
                    output.sql[k] \notin ClauseWords
              /\ output.sql[j] # Sp

----------------------------------------------------------------------------
(* The adapter's actions *)

\* an exception nobody catches ends the process
Alive == op.phase # "thrown"

\* adapter.registerCollection(collection, cb).  A call is recorded in regs
\* with the number of times its cb was invoked and whether it still waits
\* for pool.getConnection.
RegisterCollection(collection) ==
    /\ Alive
    /\ Len(regs) < MaxRegs
    /\ LET found == FindDb(collection)
       IN  IF found # <<>>
           THEN \* the db is reused; the function ends without a call of cb
                /\ dbs' = SetDb(collection.identity, found[1])
                /\ regs' = Append(regs, [collection |-> collection,
                                         state |-> "returned", cbs |-> 0])
                /\ pool' = pool
           ELSE /\ dbs' = SetDb(collection.identity, marshalConfig(collection))
                /\ IF collection.pool
                   THEN /\ pool' = [pool EXCEPT !.pool = collection.identity]
                        /\ regs' = Append(regs, [collection |-> collection,
                                                 state |-> "getConnection", cbs |-> 0])
                   ELSE /\ pool' = pool
                        /\ regs' = Append(regs, [collection |-> collection,
                                                 state |-> "returned", cbs |-> 1])
    /\ UNCHANGED <<entry, input, output, op>>

\* the callback of this.pool.getConnection (lines 75-78)
PoolGetConnection(i) ==
    /\ Alive
    /\ regs[i].state = "getConnection"
    /\ pool' = [pool EXCEPT !.tether = regs[i].collection.identity]
    /\ regs' = [regs EXCEPT ![i].state = "returned", ![i].cbs = @ + 1]
    /\ UNCHANGED <<entry, input, output, dbs, op>>

QueryKinds == {"query", "queryData"}

\* the criteria objects handed to find, update and destroy
OpOptions ==
    {Obj(<<>>),
     Obj(<< <<"where", Obj(<< <<"a", Num(1)>> >>)>>, <<"limit", Num(1)>> >>),
     Obj(<< <<"where", Obj(<< <<"not", Num(1)>> >>)>> >>),
     Obj(<< <<"where", Obj(<< <<"a", Obj(<< <<">", Num(1)>>, <<"foo", Num(1)>> >>)>> >>)>> >>),
     Obj(<< <<"where", Obj(<< <<"like", Obj(<< <<"b", RegExp("x")>> >>)>> >>)>> >>)}

\* the values handed to update and the data handed to create
OpValues ==
    {Obj(<< <<"a", Num(1)>> >>),
     Obj(<< <<"a", Obj(<< <<">", Num(1)>>, <<"foo", Num(1)>> >>)>> >>)}

\* function spawnConnection(logic, config, cb) up to connection.connect.
\* config is <<>> for undefined; marshalConfig(undefined) throws a TypeError.
spawnConnection(kind, name, vals, config, hasCb) ==
    IF config = <<>>
    THEN [NoOp EXCEPT !.kind = kind, !.collectionName = name, !.vals = vals,
                      !.hasCb = hasCb, !.phase = "thrown", !.cause = "config"]
    ELSE [NoOp EXCEPT !.kind = kind, !.collectionName = name, !.vals = vals,
                      !.hasCb = hasCb, !.phase = "connecting", !.conn = "created"]

\* adapter.query, describe, define, drop, create, find, update, destroy up
\* to the call of spawnConnection.  adapter.query calls
\* spawnConnection(logic, cb): its cb is taken for config and cb is undefined.
Call(kind, name, options, vals) ==
    /\ Alive
    /\ ~defaults.pool
    /\ op.phase \in {"idle", "done"}
    /\ entry' = ""
    /\ input' = options
    /\ output' = NoOutput
    /\ op' = IF kind \in QueryKinds
             THEN spawnConnection(kind, name, vals, <<"cb">>, FALSE)
             ELSE spawnConnection(kind, name, vals, Lookup(name), TRUE)
    /\ UNCHANGED <<dbs, regs, pool>>

\* r1 + toks + r2, or the first of the two that threw
Concat(r1, toks, r2) ==
    IF ~r1.ok THEN r1 ELSE IF ~r2.ok THEN r2 ELSE Ok(r1.sql \o toks \o r2.sql)

\* the query text each logic function builds before connection.query
QueryText(kind, name, options, vals) ==
    LET tableName == Ok(<<Tok("id", escapeId(name))>>)
        opts == serializeOptions(options)
    IN  CASE kind = "find" ->
               Concat(Concat(Ok(<<Sql("SELECT"), Sp, Sql("*"), Sp, Sql("FROM"), Sp>>),
                             <<>>, tableName),
                      <<Sp>>, opts)
          [] kind = "update" ->
               Concat(Concat(Concat(Ok(<<Sql("UPDATE"), Sp>>), <<>>, tableName),
                             <<Sp, Sql("SET"), Sp>>, criteria(vals)),
                      <<Sp>>, opts)
          [] kind = "destroy" ->
               Concat(Concat(Ok(<<Sql("DELETE"), Sp, Sql("FROM"), Sp>>), <<>>, tableName),
                      <<Sp>>, opts)
          [] kind = "create" ->
               Concat(Concat(Concat(Ok(<<Sql("INSERT"), Sp, Sql("INTO"), Sp>>),
                                    <<>>, tableName),
                             <<Sp, Sql("(")>>, attributes(vals)),
                      <<Sql(")"), Sp, Sql("VALUES"), Sp, Sql("(")>>,
                      Concat(values(vals, ""), <<Sql(")")>>, Ok(<<>>)))
          [] kind = "describe" ->
               Concat(Ok(<<Sql("DESCRIBE"), Sp>>), <<>>, tableName)
          [] kind = "drop" ->
               Concat(Ok(<<Sql("DROP"), Sp, Sql("TABLE"), Sp>>), <<>>, tableName)
          [] kind = "define" ->
               Concat(Concat(Ok(<<Sql("CREATE"), Sp, Sql("TABLE"), Sp>>), <<>>, tableName),
                      <<Sp, Sql("("), Sql("$schema"), Sql(")")>>, Ok(<<>>))
          [] OTHER -> Ok(<<Tok("raw", "query")>>)

\* function afterwards(err, connection), called by connection.connect; q is
\* what building the query text gave, were logic to run
afterwards(err, q) ==
    IF err
    THEN IF op.hasCb
         THEN [op EXCEPT !.phase = "done", !.conn = "failed",
                         !.cbs = Append(@, "connect error")]
         ELSE [op EXCEPT !.phase = "thrown", !.conn = "failed", !.cause = "cb"]
    ELSE IF q.ok
         THEN [op EXCEPT !.phase = "querying", !.conn = "connected", !.sent = TRUE]
         ELSE [op EXCEPT !.phase = "thrown", !.conn = "connected", !.cause = "build"]

ConnectCb(err) ==
    LET q == QueryText(op.kind, op.collectionName, input, op.vals)
    IN  /\ Alive
        /\ op.phase = "connecting"
        /\ op' = afterwards(err, q)
        /\ IF err THEN UNCHANGED <<entry, output>>
           ELSE entry' = op.kind /\ output' = q
        /\ UNCHANGED <<input, dbs, regs, pool>>

QueryResults == {"ok", "ER_NO_SUCH_TABLE", "ER_BAD_TABLE_ERROR", "ER_OTHER"}

\* what the callback of connection.query hands to the cb of logic
Outcome(kind, res) ==
    CASE res = "ok" -> "result"
      [] kind = "describe" /\ res = "ER_NO_SUCH_TABLE" -> "null"
      [] kind = "drop" /\ res = "ER_BAD_TABLE_ERROR" -> "null"
      [] OTHER -> "error"

\* the callback of connection.query, and the cb of logic with it (lines
\* 507-511): connection.end is called with the outcome held back
QueryCb(res) ==
    /\ Alive
    /\ op.phase = "querying"
    /\ op' = [op EXCEPT !.phase = "ending", !.held = Outcome(op.kind, res)]
    /\ UNCHANGED <<entry, input, output, dbs, regs, pool>>

\* the callback of connection.end: cb(err, result)
EndCb ==
    /\ Alive
    /\ op.phase = "ending"
    /\ op' = IF op.hasCb
             THEN [op EXCEPT !.phase = "done", !.conn = "ended",
                             !.cbs = Append(@, op.held)]
             ELSE [op EXCEPT !.phase = "thrown", !.conn = "ended", !.cause = "cb"]
    /\ UNCHANGED <<entry, input, output, dbs, regs, pool>>

Init ==
    /\ entry = ""
    /\ input = Undefined
    /\ output = NoOutput
    /\ InitAdapter

NextRegister ==
    \/ \E c \in Collections : RegisterCollection(c)
    \/ \E i \in 1..Len(regs) : PoolGetConnection(i)

NextOperations ==
    \/ \E k \in QueryKinds \cup {"describe", "define", "drop"}, n \in Identities :
          Call(k, n, Undefined, Undefined)
    \/ \E n \in Identities, v \in OpValues : Call("create", n, Undefined, v)
    \/ \E k \in {"find", "destroy"}, n \in Identities, o \in OpOptions :
          Call(k, n, o, Undefined)
    \/ \E n \in Identities, o \in OpOptions, v \in OpValues : Call("update", n, o, v)
    \/ \E err \in BOOLEAN : ConnectCb(err)
    \/ \E res \in QueryResults : QueryCb(res)
    \/ EndCb

Next == NextRegister \/ NextOperations

\* the adapter as a whole
Spec == Init /\ [][Next]_vars

\* registerCollection alone, from the state after construction
SpecRegister == Init /\ [][NextRegister]_vars

\* the state after registerCollection({identity: 'c1', host: 'h1',
\* database: 'd', pool: false}, cb): collection c1 is registered, c2 is not
Registered == [identity |-> "c1", host |-> "h1", database |-> "d", pool |-> FALSE]

InitOperations ==
    /\ entry = ""
    /\ input = Undefined
    /\ output = NoOutput
    /\ dbs = << <<"c1", marshalConfig(Registered)>> >>
    /\ regs = <<[collection |-> Registered, state |-> "returned", cbs |-> 1]>>
    /\ pool = [pool |-> "", tether |-> ""]
    /\ op = NoOp

\* the operations alone, on a registered and on an unregistered collection
SpecOperations == InitOperations /\ [][NextOperations]_vars

----------------------------------------------------------------------------
(* Claims about the adapter *)

Finished == op.phase \in {"done", "thrown"}

\* C8: when the criteria of a find, update or destroy fail to translate,
\* the operation's callback is invoked with the failure, no query is sent
\* and the connection opened for the operation is ended.
C8_BuildFailureReachesCallback ==
    (Finished /\ op.cause = "build")
    => /\ Len(op.cbs) = 1
       /\ ~op.sent
       /\ op.conn = "ended"

\* C9: every registerCollection call that has returned with nothing left to
\* wait for has invoked its callback exactly once, the calls that reuse a
\* registered database included, and dbs[identity] then holds a configuration
\* of the host and database of the last collection registered under it.
C9_RegisterCallsBackOnce ==
    \A i \in 1..Len(regs) :
        /\ regs[i].state = "returned" => regs[i].cbs = 1
        /\ (\A j \in (i + 1)..Len(regs) :
                regs[j].collection.identity # regs[i].collection.identity)
           => /\ Lookup(regs[i].collection.identity) # <<>>
              /\ Lookup(regs[i].collection.identity)[1].host = regs[i].collection.host
              /\ Lookup(regs[i].collection.identity)[1].database
                    = regs[i].collection.database

\* C10: in non-pooled mode an operation whose config is defined and whose
\* criteria translate invokes the caller's callback exactly once: with the
\* connect error and no query if connecting fails, else with the query's
\* outcome once connection.end has completed; never before that, and no
\* opened connection is left un-ended.  The direct query is included.
C10_CallbackOnceAfterEnd ==
    (op.kind # "" /\ op.cause \notin {"build", "config"})
    => /\ op.cbs # <<>> => op.conn \in {"failed", "ended"}
       /\ Finished =>
              /\ Len(op.cbs) = 1
              /\ op.conn \in {"failed", "ended"}
              /\ op.conn = "failed" => ~op.sent /\ op.cbs = <<"connect error">>
              /\ op.conn = "ended" => op.sent /\ op.cbs = <<op.held>>

\* C10 for the operations other than the direct query
CallbackOnceAfterEndButQuery ==
    op.kind \notin QueryKinds => C10_CallbackOnceAfterEnd

====
